---- MODULE Spec2Model ----
(***************************************************************************)
(* Model of the rotation bot in src/main.py: a PostgreSQL database with    *)
(* the tables members and bot_state, the registration handler (join /      *)
(* add_user), and the rotation run send_reminders, started by the daily    *)
(* job (job_queue.run_daily) and by the /test command (test_rotation).     *)
(*                                                                         *)
(* The process is a single asyncio event loop: code between two awaits is  *)
(* one atomic step.  send_reminders has one await (send_message), so a run *)
(* is two steps: the read of the roster and the pointer up to the await,   *)
(* and the completion of the send together with the pointer write.         *)
(***************************************************************************)
EXTENDS Integers, Sequences, FiniteSets, TLC

\* ---------------------------------------------------------------- bounds
MaxUser == 2            \* user ids are 1..MaxUser
MaxCalls == 3           \* /join calls in SpecReg

Users == 1..MaxUser
\* chat ids a user may /join from: the private chat or a group chat
Chats == {"private", "group"}
\* display names a user may carry (the name before and after a rename)
Names == {"name", "renamed"}
\* what /join is called with: user 1 from either chat and under either name,
\* every other user from the private chat under one name
JoinInputs ==
    {<<u, c, f>> \in Users \X Chats \X Names :
        u = 1 \/ (c = "private" /\ f = "name")}
\* the two places send_reminders is started from
Triggers == {"tick", "test"}

VARIABLES
    members,    \* table members: user_id -> [chat_id, full_name, joined_at]
    bot_state,  \* table bot_state: << >> (no row) or <<current_index>> (row id 1)
    up,         \* the bot process is running
    run,        \* per trigger: where its coroutine stands and what it read
    result,     \* how the last handler invocation ended: "returned", "logged_warning"
                \* or "logged_error" (it logged and returned), "raised" (an exception
                \* of get_rotation_info left send_reminders), "index_error" (an
                \* IndexError of members[next_index] left send_reminders),
                \* "reply_error" (test_rotation's reply_text raised)
    sent,       \* history: the user_id of each message send_message delivered, in
                \* order (Spec keeps the last one, SpecSeq all of them)
    last_write, \* history: what became of the pointer write after the last delivery
    retry,      \* history: the participant of the last failed run; clean while no
                \* participant was inserted and no pointer write happened since
                \* that run read them; pending until the next run has selected
    calls       \* history: the arguments of the add_user calls, in order (kept by
                \* SpecReg only)

vars == <<members, bot_state, up, run, result, sent, last_write, retry, calls>>

\* ------------------------------------------------------------ the database

\* the table members with no row
NoMembers == [u \in {} |-> 0]

\* ORDER BY joined_at ASC, user_id ASC: u's row comes no later than v's
RowBefore(m, u, v) ==
    \/ m[u].joined_at < m[v].joined_at
    \/ m[u].joined_at = m[v].joined_at /\ u <= v

RECURSIVE OrderRows(_, _)
OrderRows(m, S) ==
    IF S = {} THEN << >>
    ELSE LET first == CHOOSE u \in S : \A v \in S : RowBefore(m, u, v)
         IN  <<first>> \o OrderRows(m, S \ {first})

\* SELECT chat_id, full_name FROM members ORDER BY joined_at ASC, user_id ASC
\* (each row is carried with the user_id it belongs to)
select_members(m) ==
    LET ids == OrderRows(m, DOMAIN m)
    IN  [i \in 1..Len(ids) |->
            [user_id |-> ids[i], chat_id |-> m[ids[i]].chat_id,
             full_name |-> m[ids[i]].full_name]]

\* init_db without the INSERT: the pointer row is left to the first read
init_db_no_row(bs) == bs

\* INSERT INTO bot_state (id, current_index) VALUES (1, -1) ON CONFLICT (id) DO NOTHING
init_db_reset(bs) == <<-1>>
init_db(bs) == IF bs = << >> THEN <<-1>> ELSE bs

\* add_user as INSERT OR REPLACE: the conflicting row is written anew, joined_at
\* included
add_user_replace(m, user_id, chat_id, full_name, t) ==
    [u \in DOMAIN m \cup {user_id} |->
        IF u = user_id
        THEN [chat_id |-> chat_id, full_name |-> full_name, joined_at |-> t]
        ELSE m[u]]

\* INSERT INTO members ... ON CONFLICT (user_id) DO UPDATE SET full_name, chat_id
add_user(m, user_id, chat_id, full_name, t) ==
    IF user_id \in DOMAIN m
    THEN [m EXCEPT ![user_id].chat_id = chat_id, ![user_id].full_name = full_name]
    ELSE [u \in DOMAIN m \cup {user_id} |->
            IF u = user_id
            THEN [chat_id |-> chat_id, full_name |-> full_name, joined_at |-> t]
            ELSE m[u]]

\* update_index that stores the position after the one notified
update_index_of_next(bs, new_index) == IF bs = << >> THEN bs ELSE <<new_index + 1>>

\* UPDATE bot_state SET current_index = new_index WHERE id = 1
update_index(bs, new_index) == IF bs = << >> THEN bs ELSE <<new_index>>

\* ------------------------------------------------------- the rotation logic

\* next_index = (last_index + 1) % len(members)
next_index_no_increment(last_index, n) == last_index % n
next_index(last_index, n) == (last_index + 1) % n

\* Python's members[i]: a negative index counts from the end, an index outside
\* -n..n-1 raises IndexError (here: the empty sequence)
list_index(rows, i) ==
    IF 0 <= i /\ i < Len(rows) THEN <<rows[i + 1]>>
    ELSE IF -Len(rows) <= i /\ i < 0 THEN <<rows[Len(rows) + i + 1]>>
    ELSE << >>

\* CURRENT_TIMESTAMP with a clock that stands still: every INSERT gets the
\* same joined_at
current_timestamp_frozen(m) == 0

\* the value CURRENT_TIMESTAMP has for the next INSERT: add_user runs to its
\* commit before the event loop takes the next /join, so every INSERT is
\* later than the ones before it; timestamps are kept as ranks 0, 1, ...
Latest(m) ==
    CHOOSE t \in {m[u].joined_at : u \in DOMAIN m} :
        \A u \in DOMAIN m : m[u].joined_at <= t

current_timestamp(m) == IF DOMAIN m = {} THEN 0 ELSE Latest(m) + 1

Idle == [pc |-> "idle", last_index |-> 0, next_index |-> 0, n |-> 0,
         user_id |-> 0]

NoRetry == [user_id |-> 0, kind |-> "none", clean |-> FALSE, pending |-> FALSE]

\* a participant was inserted or the pointer was written
Disturbed(r) == [r EXCEPT !.clean = FALSE]

InFlight(t) == run[t].pc = "dispatching"

\* the pc a trigger's coroutine has when it is about to call get_rotation_info:
\* the job calls send_reminders directly, test_rotation after its reply_text
Entering(t) == up /\ run[t].pc = (IF t = "tick" THEN "idle" ELSE "replying")

\* what a failed run leaves for the next run: its participant, clean when the
\* roster size and the pointer are still what the failed run read
Failed(t, kind) ==
    [user_id |-> run[t].user_id, kind |-> kind, pending |-> TRUE,
     clean |-> /\ bot_state = <<run[t].last_index>>
               /\ Cardinality(DOMAIN members) = run[t].n]

\* ------------------------------------------------------------------ Init

Init ==
    /\ members = NoMembers
    /\ bot_state = << >>
    /\ up = FALSE
    /\ run = [t \in Triggers |-> Idle]
    /\ result = "none"
    /\ sent = << >>
    /\ last_write = "none"
    /\ retry = NoRetry
    /\ calls = << >>

\* --------------------------------------------------------------- actions

\* __main__: init_db(), then the handlers and the daily job are installed
Start ==
    /\ ~up
    /\ up' = TRUE
    /\ bot_state' = init_db(bot_state)
    /\ UNCHANGED <<members, run, result, sent, last_write, retry, calls>>

\* the process is stopped: every coroutine in progress is lost
Stop ==
    /\ up
    /\ up' = FALSE
    /\ run' = [t \in Triggers |-> Idle]
    /\ result' = "none"
    /\ UNCHANGED <<members, bot_state, sent, last_write, retry, calls>>

\* join that starts the rotation over: the registration puts the pointer
\* back to -1
join_restarts_rotation(user_id, chat_id, full_name) ==
    /\ up
    /\ run["test"].pc = "idle"
    /\ members' = add_user(members, user_id, chat_id, full_name,
                            current_timestamp(members))
    /\ bot_state' = update_index(bot_state, -1)
    /\ result' = "returned"
    /\ retry' = IF user_id \in DOMAIN members THEN retry ELSE Disturbed(retry)
    /\ UNCHANGED <<up, run, sent, last_write>>

\* join: add_user succeeds and the handler replies
\* (the history calls is left to the specification that uses join)
join(user_id, chat_id, full_name) ==
    /\ up
    /\ run["test"].pc = "idle"
    /\ members' = add_user(members, user_id, chat_id, full_name,
                            current_timestamp(members))
    /\ result' = "returned"
    /\ retry' = IF user_id \in DOMAIN members THEN retry ELSE Disturbed(retry)
    /\ UNCHANGED <<bot_state, up, run, sent, last_write>>

\* join: add_user raises, the handler logs and replies with the error
join_error ==
    /\ up
    /\ run["test"].pc = "idle"
    /\ result' = "logged_error"
    /\ UNCHANGED <<members, bot_state, up, run, sent, last_write, retry, calls>>

\* test_rotation: the handler starts and awaits its reply_text
test_rotation ==
    /\ up
    /\ run["test"].pc = "idle"
    /\ run' = [run EXCEPT !["test"] = [Idle EXCEPT !.pc = "replying"]]
    /\ UNCHANGED <<members, bot_state, up, result, sent, last_write, retry, calls>>

\* test_rotation: reply_text raises, send_reminders is never called
test_reply_error ==
    /\ up
    /\ run["test"].pc = "replying"
    /\ run' = [run EXCEPT !["test"] = Idle]
    /\ result' = "reply_error"
    /\ UNCHANGED <<members, bot_state, up, sent, last_write, retry, calls>>

\* send_reminders: get_rotation_info raises (connect, execute or fetchone()[0]
\* without a row); the call is outside the try, so the exception leaves
\* send_reminders
read_error(t) ==
    /\ Entering(t)
    /\ run' = [run EXCEPT ![t] = Idle]
    /\ result' = "raised"
    /\ UNCHANGED <<members, bot_state, up, sent, last_write, retry, calls>>

\* no_members without the early return: the pointer is written for an empty roster
no_members_writes(t) ==
    /\ Entering(t)
    /\ bot_state # << >>
    /\ select_members(members) = << >>
    /\ run' = [run EXCEPT ![t] = Idle]
    /\ result' = "logged_warning"
    /\ bot_state' = update_index(bot_state, 0)
    /\ UNCHANGED <<members, up, sent, last_write, retry, calls>>

\* send_reminders: "if not members": warning, return
no_members(t) ==
    /\ Entering(t)
    /\ bot_state # << >>
    /\ select_members(members) = << >>
    /\ run' = [run EXCEPT ![t] = Idle]
    /\ result' = "logged_warning"
    /\ UNCHANGED <<members, bot_state, up, sent, last_write, retry, calls>>

\* send_reminders up to "await context.bot.send_message": read the roster and
\* the pointer, compute next_index, pick members[next_index]
select(t) ==
    /\ Entering(t)
    /\ bot_state # << >>
    /\ LET rows == select_members(members)
           last_index == bot_state[1]
           nxt == next_index(last_index, Len(rows))
           row == list_index(rows, nxt)
       IN  /\ rows # << >>
           /\ IF row = << >>
              THEN /\ run' = [run EXCEPT ![t] = Idle]
                   /\ result' = "index_error"
                   /\ retry' = retry
              ELSE /\ run' = [run EXCEPT ![t] =
                        [pc |-> "dispatching", last_index |-> last_index,
                         next_index |-> nxt, n |-> Len(rows),
                         user_id |-> row[1].user_id]]
                   /\ result' = result
                   /\ retry' = [retry EXCEPT !.pending = FALSE]
    /\ UNCHANGED <<members, bot_state, up, sent, last_write, calls>>

\* send_failed with the pointer written although the send raised (update_index
\* before the send, or in a finally)
send_failed_advances(t) ==
    /\ up /\ InFlight(t)
    /\ run' = [run EXCEPT ![t] = Idle]
    /\ result' = "logged_error"
    /\ retry' = Failed(t, "send")
    /\ bot_state' = update_index(bot_state, run[t].next_index)
    /\ UNCHANGED <<members, up, sent, last_write, calls>>

\* send_failed that drops the participant who could not be reached from the
\* table members
send_failed_removes(t) ==
    /\ up /\ InFlight(t)
    /\ run' = [run EXCEPT ![t] = Idle]
    /\ result' = "logged_error"
    /\ retry' = Failed(t, "send")
    /\ members' = [u \in DOMAIN members \ {run[t].user_id} |-> members[u]]
    /\ UNCHANGED <<bot_state, up, sent, last_write, calls>>

\* send_message raises: the except branch logs, the pointer is not written
send_failed(t) ==
    /\ up /\ InFlight(t)
    /\ run' = [run EXCEPT ![t] = Idle]
    /\ result' = "logged_error"
    /\ retry' = Failed(t, "send")
    /\ UNCHANGED <<members, bot_state, up, sent, last_write, calls>>

\* send_committed with the manual trigger as a preview: a run started by /test
\* does not write the pointer
send_committed_preview(t) ==
    /\ up /\ InFlight(t)
    /\ last_write' = "committed"
    /\ bot_state' = IF t = "test" THEN bot_state
                   ELSE update_index(bot_state, run[t].next_index)
    /\ run' = [run EXCEPT ![t] = Idle]
    /\ result' = "returned"
    /\ retry' = IF retry.pending THEN Disturbed(retry) ELSE NoRetry
    /\ UNCHANGED <<members, up, calls>>

\* send_message returns and update_index(next_index) commits
\* (the three actions that deliver a message leave the history sent to the
\* specification that uses them)
send_committed(t) ==
    /\ up /\ InFlight(t)
    /\ last_write' = "committed"
    /\ bot_state' = update_index(bot_state, run[t].next_index)
    /\ run' = [run EXCEPT ![t] = Idle]
    /\ result' = "returned"
    /\ retry' = IF retry.pending THEN Disturbed(retry) ELSE NoRetry
    /\ UNCHANGED <<members, up, calls>>

\* commit_failed with update_index outside the try: its exception leaves
\* send_reminders
commit_failed_raises(t) ==
    /\ up /\ InFlight(t)
    /\ last_write' = "failed"
    /\ run' = [run EXCEPT ![t] = Idle]
    /\ result' = "raised"
    /\ retry' = Failed(t, "commit")
    /\ UNCHANGED <<members, bot_state, up, calls>>

\* send_message returns and update_index raises: the except branch logs
commit_failed(t) ==
    /\ up /\ InFlight(t)
    /\ last_write' = "failed"
    /\ run' = [run EXCEPT ![t] = Idle]
    /\ result' = "logged_error"
    /\ retry' = Failed(t, "commit")
    /\ UNCHANGED <<members, bot_state, up, calls>>

\* send_message returns and the process is stopped before update_index commits
killed_before_commit(t) ==
    /\ up /\ InFlight(t)
    /\ last_write' = "killed"
    /\ up' = FALSE
    /\ run' = [u \in Triggers |-> Idle]
    /\ result' = "none"
    /\ UNCHANGED <<members, bot_state, retry, calls>>

\* ------------------------------------------------------------------ Spec

Next ==
    \/ Start
    \/ Stop
    \/ \E in \in JoinInputs : join(in[1], in[2], in[3]) /\ calls' = calls
    \/ join_error
    \/ test_rotation
    \/ test_reply_error
    \/ \E t \in Triggers : read_error(t)
    \/ \E t \in Triggers : no_members(t)
    \/ \E t \in Triggers : select(t)
    \/ \E t \in Triggers : send_failed(t)
    \/ \E t \in Triggers : send_committed(t) /\ sent' = <<run[t].user_id>>
    \/ \E t \in Triggers : commit_failed(t) /\ sent' = <<run[t].user_id>>
    \/ \E t \in Triggers : killed_before_commit(t) /\ sent' = <<run[t].user_id>>

Spec == Init /\ [][Next]_vars

\* ---------------------------------------------------------------- SpecSeq
\* A fixed roster, the pointer at -1, and rotation runs one after another,
\* every send_message and every update_index succeeding.

\* the tables members that registrations can produce, with at least one row
Rosters ==
    LET Rows == [chat_id : Chats, full_name : Names, joined_at : 0..(MaxUser - 1)]
        All  == UNION {[S -> Rows] : S \in SUBSET Users \ {{}}}
    IN  {m \in All :
            /\ \A u \in DOMAIN m : <<u, m[u].chat_id, m[u].full_name>> \in JoinInputs
            /\ {m[u].joined_at : u \in DOMAIN m} = 0..(Cardinality(DOMAIN m) - 1)}

InitSeq ==
    /\ members \in Rosters
    /\ bot_state = <<-1>>
    /\ up = TRUE
    /\ run = [t \in Triggers |-> Idle]
    /\ result = "none"
    /\ sent = << >>
    /\ last_write = "none"
    /\ retry = NoRetry
    /\ calls = << >>

\* no other trigger's coroutine is in progress
Alone(t) == \A o \in Triggers \ {t} : run[o].pc = "idle"

\* runs are started until one full cycle and the run after it are done
MoreRuns == Len(sent) <= Cardinality(DOMAIN members)

NextSeq ==
    \/ MoreRuns /\ Alone("test") /\ test_rotation
    \/ \E t \in Triggers : MoreRuns /\ Alone(t) /\ select(t)
    \/ \E t \in Triggers : send_committed(t) /\ sent' = Append(sent, run[t].user_id)

SpecSeq == InitSeq /\ [][NextSeq]_vars

\* --------------------------------------------------------------- SpecPair
\* A fixed roster, possibly empty, any pointer the roster allows, and one run
\* of each trigger with every outcome a run can have.

\* the pointers a roster of n participants can have: -1 before the first
\* write, or an index a run wrote
Pointers(n) == {<<i>> : i \in -1..(n - 1)}

InitPair ==
    /\ members \in {NoMembers} \cup
            {m \in Rosters : \A u \in DOMAIN m :
                m[u].chat_id = "private" /\ m[u].full_name = "name"}
    /\ bot_state \in Pointers(Cardinality(DOMAIN members))
    /\ up = TRUE
    /\ run = [t \in Triggers |-> Idle]
    /\ result = "none"
    /\ sent = << >>
    /\ last_write = "none"
    /\ retry = NoRetry
    /\ calls = << >>

\* no run has ended yet
NoneEnded == result = "none"

NextPair ==
    \/ NoneEnded /\ test_rotation
    \/ NoneEnded /\ test_reply_error
    \/ \E t \in Triggers : NoneEnded /\ read_error(t)
    \/ \E t \in Triggers : NoneEnded /\ no_members(t)
    \/ \E t \in Triggers : NoneEnded /\ select(t)
    \/ \E t \in Triggers : send_failed(t)
    \/ \E t \in Triggers : send_committed(t) /\ sent' = <<run[t].user_id>>
    \/ \E t \in Triggers : commit_failed(t) /\ sent' = <<run[t].user_id>>

SpecPair == InitPair /\ [][NextPair]_vars

\* ---------------------------------------------------------------- SpecReg
\* Registrations, recorded in calls, between and during the runs of the daily
\* job.

InitReg ==
    /\ members = NoMembers
    /\ bot_state = <<-1>>
    /\ up = TRUE
    /\ run = [t \in Triggers |-> Idle]
    /\ result = "none"
    /\ sent = << >>
    /\ last_write = "none"
    /\ retry = NoRetry
    /\ calls = << >>

NextReg ==
    \/ \E in \in JoinInputs :
          /\ Len(calls) < MaxCalls
          /\ join(in[1], in[2], in[3])
          /\ calls' = Append(calls, in)
    \/ select("tick")
    \/ send_failed("tick")
    \/ send_committed("tick") /\ sent' = <<run["tick"].user_id>>

SpecReg == InitReg /\ [][NextReg]_vars

\* --------------------------------------------------------------- SpecLive
\* The process stays up; participants register between and during runs; the
\* daily job keeps firing (job_queue.run_daily) and /test may come at any
\* time; a run ends with its send failed or with the message delivered and
\* the pointer written, and again and again a run of the daily job ends the
\* second way.

\* the step by which run t delivers its message and writes the pointer
Committed(t) == send_committed(t) /\ sent' = <<run[t].user_id>>

\* the step by which the daily job starts a run
Tick == select("tick") \/ no_members("tick")

NextLive ==
    \/ \E u \in Users : join(u, "private", "name") /\ calls' = calls
    \/ test_rotation
    \/ \E t \in Triggers : no_members(t)
    \/ \E t \in Triggers : select(t)
    \/ \E t \in Triggers : send_failed(t)
    \/ \E t \in Triggers : Committed(t)

SpecLive ==
    /\ InitReg
    /\ [][NextLive]_vars
    /\ WF_vars(Tick)
    /\ SF_vars(Committed("tick"))

\* ----------------------------------------------------------------- claims

Size == Cardinality(DOMAIN members)
Quiet == \A t \in Triggers : run[t].pc = "idle"

\* C1: full-cycle coverage.  With a fixed roster of N >= 1 participants, the
\* pointer at -1 and runs one after another that all succeed, the first N
\* deliveries go to N different participants in (joined_at, user_id) order,
\* which are the whole roster, and leave the pointer at N-1 (after k <= N runs
\* it is k-1); delivery N+1 goes to the first participant again and sets the
\* pointer to 0.
C1_FullCycle ==
    /\ \A i, j \in 1..Len(sent) :
          i < j /\ j <= Size => sent[i] # sent[j] /\ RowBefore(members, sent[i], sent[j])
    /\ \A i \in 1..Len(sent) : sent[i] \in DOMAIN members
    /\ Len(sent) >= Size => {sent[i] : i \in 1..Size} = DOMAIN members
    /\ Len(sent) = 0 => bot_state = <<-1>>
    /\ Len(sent) \in 1..Size => bot_state = <<Len(sent) - 1>>
    /\ Len(sent) = Size + 1 => sent[Size + 1] = sent[1] /\ bot_state = <<0>>

\* C1 witness: a roster of two or more has been served a full cycle and the
\* wrap-around run has returned
C1_Witness ==
    /\ Size >= 2
    /\ Len(sent) = Size + 1
    /\ Quiet
    /\ bot_state = <<0>>

\* C2: whenever a run has selected, the roster it read was not empty, the
\* index it computed is last_index + 1, or 0 when last_index was the last
\* position, it lies in 0..N-1, and members[next_index] never raised.
C2_NextIndex ==
    /\ result # "index_error"
    /\ \A t \in Triggers : InFlight(t) =>
          /\ run[t].n >= 1
          /\ run[t].next_index \in 0..(run[t].n - 1)
          /\ run[t].next_index =
                IF run[t].last_index = run[t].n - 1 THEN 0 ELSE run[t].last_index + 1

\* C2 witness: a run over two or more participants wrapped around
C2_Witness ==
    \E t \in Triggers :
        /\ InFlight(t)
        /\ run[t].n >= 2
        /\ run[t].last_index = run[t].n - 1
        /\ run[t].next_index = 0

\* C3: no advance on failure.  A run whose send_message raises writes nothing
\* to bot_state: the step that ends it leaves current_index as it was.
C3_NoAdvanceOnFailure ==
    [][\A t \in Triggers : send_failed(t) => bot_state' = bot_state]_vars

\* C3 witness: a send has failed after the pointer had advanced
C3_Witness ==
    /\ retry.kind = "send" /\ retry.pending
    /\ result = "logged_error"
    /\ bot_state # <<-1>>

\* C4 (as the specification states it): at most one rotation run is between
\* its read of the roster and the pointer and its return
C4_NoOverlap == Cardinality({t \in Triggers : InFlight(t)}) <= 1

\* C5 (as the specification states it): the read-modify-write of the pointer
\* is atomic: over an unchanged roster, a run that commits moves the pointer
\* one position on from the value it has then, so that two runs move it two
\* positions and no two runs compute next_index from the same last_index
C5_NoLostUpdate ==
    [][\A t \in Triggers :
          send_committed(t) /\ Size = run[t].n =>
              bot_state' = <<IF bot_state[1] = Size - 1 THEN 0 ELSE bot_state[1] + 1>>]_vars

C7_EmptyRoster ==
    [][\A t \in Triggers : no_members(t) =>
          /\ result' = "logged_warning"
          /\ bot_state' = bot_state
          /\ members' = members
          /\ sent' = sent /\ last_write' = last_write
          /\ run'[t].pc = "idle"]_vars

\* C7 witness: a run has found the roster empty
C7_Witness ==
    /\ result = "logged_warning"
    /\ members = NoMembers
    /\ bot_state = <<-1>>
    /\ Quiet

\* C8 (as the specification states it): no exception leaves send_reminders
C8_AllErrorsCaught == result \notin {"raised", "index_error"}

\* the step by which run t selects, as the first run to do so after the
\* failed run that retry records
SelectsAfter(t, kind) ==
    /\ ~InFlight(t) /\ InFlight(t)'
    /\ retry.pending /\ retry.kind = kind

\* the run t is in flight, and the failed run that retry records has been
\* followed by a run
Retried(t, kind) ==
    /\ InFlight(t)
    /\ retry.kind = kind
    /\ ~retry.pending

\* C9 (as the specification states it): the run that starts next after a
\* failed send selects the participant the failed run selected
C9_RetrySameAlways ==
    [][\A t \in Triggers :
          SelectsAfter(t, "send") => run'[t].user_id = retry.user_id]_vars

\* C9 (as the code keeps it): it does, provided no participant was inserted
\* and no run wrote the pointer since the failed run read the roster and the
\* pointer
C9_RetrySame ==
    [][\A t \in Triggers :
          SelectsAfter(t, "send") /\ retry.clean => run'[t].user_id = retry.user_id]_vars

\* C9 witness: a run over two or more participants retries the participant
\* of the failed send
C9_Witness ==
    \E t \in Triggers :
        /\ Retried(t, "send") /\ retry.clean
        /\ Alone(t)
        /\ run[t].n >= 2
        /\ run[t].user_id = retry.user_id

\* C10 (as the specification states it): a failed pointer write is logged and
\* not raised, leaves the pointer as it was, and the run that starts next
\* selects the same participant again
C10_CommitFailureAlways ==
    [][\A t \in Triggers :
          /\ commit_failed(t) =>
                result' = "logged_error" /\ bot_state' = bot_state /\ run'[t].pc = "idle"
          /\ SelectsAfter(t, "commit") => run'[t].user_id = retry.user_id]_vars

\* C10 (as the code keeps it): a failed pointer write is logged and not
\* raised and leaves the pointer as it was; the next run selects the same
\* participant again provided no participant was inserted and no run wrote
\* the pointer since the failed run read the roster and the pointer
C10_CommitFailure ==
    [][\A t \in Triggers :
          /\ commit_failed(t) =>
                result' = "logged_error" /\ bot_state' = bot_state /\ run'[t].pc = "idle"
          /\ SelectsAfter(t, "commit") /\ retry.clean =>
                run'[t].user_id = retry.user_id]_vars

\* C10 witness: after a delivery whose pointer write failed, the next run has
\* selected the participant who was just notified
C10_Witness ==
    \E t \in Triggers :
        /\ Retried(t, "commit") /\ retry.clean
        /\ Alone(t)
        /\ last_write = "failed"
        /\ sent = <<run[t].user_id>>
        /\ run[t].n >= 2

\* C11: each rotation run notifies exactly one participant.  The run that
\* selects picks the participant at next_index of the roster it reads; a
\* delivery is the one send of a run that had selected, goes to the
\* participant that run selected and ends that run; and the pointer is
\* written only by the step in which a run's send has succeeded, with that
\* run's next_index.
C11_ExactlyOne ==
    [][/\ \A t \in Triggers :
             ~InFlight(t) /\ InFlight(t)' =>
                 /\ Len(select_members(members)) = run'[t].n
                 /\ run'[t].next_index \in 0..(run'[t].n - 1)
                 /\ select_members(members)[run'[t].next_index + 1].user_id
                        = run'[t].user_id
       /\ sent' # sent \/ last_write' # last_write =>
             \E t \in Triggers :
                 InFlight(t) /\ ~InFlight(t)' /\ sent' = <<run[t].user_id>>
       /\ bot_state # << >> /\ bot_state' # bot_state =>
             \E t \in Triggers :
                 /\ InFlight(t) /\ ~InFlight(t)'
                 /\ bot_state' = <<run[t].next_index>>
                 /\ sent' = <<run[t].user_id>>
                 /\ last_write' = "committed" /\ result' = "returned"]_vars

\* C11 witness: a run over two or more participants has delivered to the
\* second of them and written the pointer
C11_Witness ==
    /\ Size >= 2
    /\ Quiet
    /\ last_write = "committed" /\ result = "returned"
    /\ bot_state = <<1>>
    /\ sent = <<select_members(members)[2].user_id>>

\* what a trigger's run can do next: select participant u at index i, find
\* the roster empty, or fail to read
CanSelect(t, u, i) ==
    ENABLED (/\ select(t)
             /\ InFlight(t)'
             /\ run'[t].user_id = u
             /\ run'[t].next_index = i)
CanFindEmpty(t) == ENABLED (no_members(t) /\ bot_state' = bot_state)
CanFailToRead(t) == ENABLED (read_error(t) /\ bot_state' = bot_state)

\* what a run in flight can do next: write pointer p, or end with the pointer
\* as it is; the roster stays as it is
CanCommit(t, p) ==
    ENABLED (send_committed(t) /\ bot_state' = <<p>> /\ members' = members)
CanFail(t) ==
    ENABLED ((send_failed(t) \/ commit_failed(t)) /\ bot_state' = bot_state
             /\ members' = members)

RosterIds(m) == [i \in 1..Len(select_members(m)) |-> select_members(m)[i].user_id]

\* the add_user call made in this step
Called == calls'[Len(calls')]

\* C13: idempotence of upsert.  An add_user call with the arguments of the
\* add_user call before it leaves the table members as it is: the same rows,
\* the same joined_at, the same roster order.
C13_UpsertIdempotent ==
    [][Len(calls) >= 1 /\ calls' = Append(calls, calls[Len(calls)]) =>
          /\ members' = members
          /\ select_members(members') = select_members(members)]_vars

\* C13 witness: with two participants registered, the last two add_user calls
\* had the same arguments
C13_Witness ==
    /\ Len(calls) >= 3
    /\ calls[Len(calls)] = calls[Len(calls) - 1]
    /\ Size >= 2
    /\ result = "returned"

\* C14: joined_at is immutable.  No step removes a participant or changes a
\* joined_at; an add_user call for an id that is registered changes chat_id
\* and full_name of that row and nothing else, and the roster order stays.
C14_JoinedAtImmutable ==
    [][/\ \A u \in DOMAIN members :
             u \in DOMAIN members' /\ members'[u].joined_at = members[u].joined_at
       /\ calls' # calls /\ Called[1] \in DOMAIN members =>
             /\ members' = [members EXCEPT ![Called[1]].chat_id = Called[2],
                                           ![Called[1]].full_name = Called[3]]
             /\ RosterIds(members') = RosterIds(members)]_vars

\* C14 witness: the first of two participants has registered again from
\* another chat or under another name, after the second had joined and a
\* message had been delivered
C14_Witness ==
    /\ Len(calls) = 3
    /\ calls[1][1] = calls[3][1] /\ calls[1] # calls[3]
    /\ calls[2][1] # calls[1][1]
    /\ RosterIds(members) = <<calls[1][1], calls[2][1]>>
    /\ members[calls[3][1]].chat_id = calls[3][2]
    /\ members[calls[3][1]].full_name = calls[3][3]
    /\ sent # << >>

\* C15: registration does not touch the pointer.  A join, whether add_user
\* inserts, updates or raises, leaves current_index as it is, also while a
\* rotation run is in flight; and every step that changes the table members
\* leaves it.
C15_RegistrationKeepsPointer ==
    [][/\ \A in \in JoinInputs :
             join(in[1], in[2], in[3]) => bot_state' = bot_state
       /\ join_error => bot_state' = bot_state /\ members' = members
       /\ members' # members => bot_state' = bot_state]_vars

\* C15 witness: a participant was inserted while a run was in flight that had
\* read an advanced pointer, and the pointer is what that run read
C15_Witness ==
    \E t \in Triggers :
        /\ InFlight(t)
        /\ Size > run[t].n
        /\ result = "returned"
        /\ bot_state = <<run[t].last_index>>
        /\ bot_state # <<-1>>

\* C16: order stability.  Every step of a rotation run, whatever its outcome
\* (read failure, empty roster, selection, send failure, commit, commit
\* failure), leaves the table members and the order get_rotation_info returns
\* as they are; so does every step that moves a run, delivers a message or
\* writes the pointer.
C16_OrderStability ==
    [][/\ \A t \in Triggers :
             \/ read_error(t) \/ no_members(t) \/ select(t)
             \/ send_failed(t) \/ send_committed(t) \/ commit_failed(t)
             => /\ members' = members
                /\ select_members(members') = select_members(members)
       /\ \/ run' # run \/ sent' # sent
          \/ last_write' # last_write \/ bot_state' # bot_state
          => members' = members]_vars

\* C16 witness: over a roster of two or more, a send has failed after a
\* pointer write had failed
C16_Witness ==
    /\ Size >= 2
    /\ Quiet
    /\ retry.kind = "send" /\ retry.pending
    /\ last_write = "failed"
    /\ result = "logged_error"

\* the stored pointer is -1 or an index of the roster as it is now, and it is
\* not -1 after a pointer write
CursorInRange ==
    /\ up => bot_state # << >>
    /\ bot_state # << >> => bot_state[1] \in -1..(Size - 1)
    /\ last_write = "committed" => bot_state # <<-1>>

\* the pointer leaves -1 by a run's pointer write and by nothing else, every
\* pointer write takes it off -1, and it never comes back to -1
CursorLeavesInitialByCommit ==
    /\ bot_state = <<-1>> /\ bot_state' # <<-1>> =>
          \E t \in Triggers : send_committed(t)
    /\ (\E t \in Triggers : send_committed(t)) => bot_state' # <<-1>>
    /\ bot_state # << >> /\ bot_state # <<-1>> =>
          bot_state' # << >> /\ bot_state' # <<-1>>

\* C17: cursor range invariant.  In every state reached by registrations,
\* rotation runs, stops and starts, the stored current_index is an integer in
\* -1..N-1 for the current roster size N, and it is -1 exactly as long as no
\* run has committed.
C17_CursorRange == []CursorInRange /\ [][CursorLeavesInitialByCommit]_vars

\* C17 witness: the pointer stands at the last of two or more participants
\* after a run committed
C17_Witness ==
    /\ Size >= 2
    /\ bot_state = <<Size - 1>>
    /\ last_write = "committed"
    /\ Quiet

Notifies(u) ==
    \E t \in Triggers : InFlight(t) /\ run[t].user_id = u /\ Committed(t)

\* C20: every participant is eventually revisited.  With the daily job firing
\* again and again and a send with its pointer write succeeding again and
\* again, whatever registrations, failures and manual runs come in between,
\* every participant who has registered is notified infinitely often.
C20_EventuallyRevisited ==
    \A u \in Users : [](u \notin DOMAIN members) \/ []<><<Notifies(u)>>_vars

\* C20 witness: the roster has grown to its full size since a run, still in
\* flight, read it, and meanwhile the rotation has delivered to the
\* participant who joined last
C20_Witness ==
    \E t \in Triggers :
        /\ InFlight(t)
        /\ run[t].n < Size
        /\ Size = MaxUser
        /\ last_write = "committed"
        /\ bot_state = <<Size - 1>>
        /\ sent = <<select_members(members)[Size].user_id>>

====
